---- MODULE Spec2Model ----
(***************************************************************************)
(* SteamTradeManager (crates/steam-trading/src/lib.rs): the trade offer    *)
(* operations of one manager, run on one task.  Every async fn is cut at   *)
(* its await points: an action runs the code from one await to the next,   *)
(* and the answer of the collaborator that is awaited (web API, transport, *)
(* confirmations, guard check) is an input of the action that resumes.     *)
(***************************************************************************)
EXTENDS Integers, Sequences, FiniteSets, TLC

\* ------------------------------------------------------------------ bounds
\* trade offer ids are 1..MaxOffers; a GetTradeOffers answer lists at most
\* MaxOffers offers
MaxOffers == 3
\* pending confirmations have ids 1..MaxConfs
MaxConfs == 2

\* ------------------------------------------------------- program constants
TRADE_MAX_ITEMS == 255
STANDARD_DELAY == 1000

\* ------------------------------------------------------------ value shapes
\* Option<T> is a sequence of length 0 (None) or 1 (Some(x))
None == <<>>
Some(x) == <<x>>
IsSome(o) == Len(o) = 1
IsNone(o) == Len(o) = 0
Unwrap(o) == o[1]
Option(S) == {None} \cup {Some(x) : x \in S}

OfferIds == 1..MaxOffers
AccountIds == {7, 8}

\* TradeError, as far as the manager tells its kinds apart: kind is the
\* variant, text the message it carries, id the offer id it carries
Error(kind, text, id) == [kind |-> kind, text |-> text, id |-> id]
NoError == Error("", "", 0)

\* Result<i64, TradeError>, plus the two outcomes that are no value: the
\* future is still pending, the task panicked
Pending == [tag |-> "Pending", err |-> NoError, id |-> 0]
Ok(id) == [tag |-> "Ok", err |-> NoError, id |-> id]
Err(e) == [tag |-> "Err", err |-> e, id |-> 0]
Panic == [tag |-> "Panic", err |-> NoError, id |-> 0]

\* errors the collaborators hand back (transport, web API, confirmations)
TransportErrors == {Error("TransportError", t, 0) : t \in {"timeout", "reset"}}
AuthErrors == {Error("AuthError", t, 0) : t \in {"fetch", "process"}}
GuardErrors == {Error("SteamGuardError", "recently activated", 0)}

\* what fetch_confirmations answered: an error, or Ok with the pending
\* confirmations, an Option
Fetched(tag, err, conf) == [tag |-> tag, err |-> err, conf |-> conf]

\* one I/O event of the running operation: ev names the call, id the offer
Event(ev, id) == [ev |-> ev, id |-> id]

\* ------------------------------------------------------------ wire formats
\* a string is the sequence of its characters
Digits == <<"0", "1", "2", "3", "4", "5", "6", "7", "8", "9">>
IsDigit(c) == \E d \in 1..10 : Digits[d] = c
DigitVal(c) == (CHOOSE d \in 1..10 : Digits[d] = c) - 1

\* the decimal text of n >= 0, as the platform writes "tradeofferid"
RECURSIVE FormatI64(_)
FormatI64(n) ==
    IF n < 10 THEN <<Digits[n + 1]>>
    ELSE Append(FormatI64(n \div 10), Digits[(n % 10) + 1])

RECURSIVE ParseDigits(_, _)
ParseDigits(s, acc) ==
    IF s = <<>> THEN Some(acc)
    ELSE IF ~IsDigit(Head(s)) THEN None
    ELSE ParseDigits(Tail(s), acc * 10 + DigitVal(Head(s)))

\* i64::from_str: an optional sign, then one digit or more, and nothing else
ParseI64(s) ==
    LET signed == s # <<>> /\ Head(s) \in {"+", "-"}
        body == IF signed THEN Tail(s) ELSE s
        mag == ParseDigits(body, 0)
    IN  IF body = <<>> \/ IsNone(mag) THEN None
        ELSE IF signed /\ Head(s) = "-" THEN Some(0 - Unwrap(mag))
        ELSE mag

\* texts the platform may put in "tradeofferid": the decimal id of an offer,
\* and texts that are no decimal number
IdTexts == {FormatI64(i) : i \in OfferIds} \cup {<<"x">>, <<>>}

\* A response text, by what the parsers make of it: asT, whether it parses as
\* the success shape T the operation expects, and then its fields; asErr,
\* whether it parses as TradeOfferGenericErrorResponse, and then its fields;
\* raw, the text itself.
Text(raw, asT, tradeofferid, nmc, asErr, error_message, eresult) ==
    [raw |-> raw, asT |-> asT, tradeofferid |-> tradeofferid,
     needs_mobile_confirmation |-> nmc, asErr |-> asErr,
     error_message |-> error_message, eresult |-> eresult]

KnownMessage == "There was an error sending your trade offer. (25)"
UnknownMessage == "Something went wrong."
KnownEResult == 25
UnknownEResult == 99999

SuccessTexts ==
    {Text("success", TRUE, t, None, FALSE, None, None) : t \in Option(IdTexts)}
    \cup {Text("success", TRUE, Some(FormatI64(1)), Some(n), FALSE, None, None) :
            n \in BOOLEAN}
    \cup {Text("success with strError", TRUE, Some(FormatI64(1)), None,
               TRUE, Some(UnknownMessage), None)}

FailureTexts ==
    {Text("error_message known", FALSE, None, None, TRUE, Some(KnownMessage), None),
     Text("error_message unknown", FALSE, None, None, TRUE, Some(UnknownMessage), None),
     Text("eresult known", FALSE, None, None, TRUE, None, Some(KnownEResult)),
     Text("eresult unknown", FALSE, None, None, TRUE, None, Some(UnknownEResult)),
     Text("error_message unknown, eresult known", FALSE, None, None, TRUE,
          Some(UnknownMessage), Some(KnownEResult)),
     Text("empty object", FALSE, None, None, TRUE, None, None),
     Text("not json", FALSE, None, None, FALSE, None, None)}

ResponseTexts == SuccessTexts \cup FailureTexts

\* the texts the declines of decline_received_offers are answered with
DeclineTexts ==
    {text \in ResponseTexts : text.raw \in {"success", "eresult known", "not json"}}

\* GetTradeOffersResponse: the TradeOffer_Trade records of the answer, in the
\* platform's order, no id twice
OfferIdLists ==
    {ids \in UNION {[1..n -> OfferIds] : n \in 0..MaxOffers} :
        \A i, j \in DOMAIN ids : ids[i] = ids[j] => i = j}

OfferOf(id, rest) ==
    [tradeofferid |-> id, accountid_other |-> rest.accountid_other,
     state |-> rest.state, is_our_offer |-> rest.is_our_offer]

OfferRest ==
    [accountid_other : AccountIds, state : {"Active", "Accepted"},
     is_our_offer : BOOLEAN]

OffersResponse(ids, rest) == [i \in DOMAIN ids |-> OfferOf(ids[i], rest[i])]

\* Confirmation of the mobile authenticator
Confirmation == [id : 1..MaxConfs, related_trade_offer_id : Option(OfferIds)]

\* Confirmations: the pending confirmations, no id twice
ConfirmationSets ==
    {c \in SUBSET Confirmation : \A x, y \in c : x.id = y.id => x = y}

\* TradeOffer, as far as the manager reads it: the sizes of the two asset
\* collections, whether a side lists an asset twice, and the tradelink
TradeOffers ==
    [my_assets : {0, 1, TRADE_MAX_ITEMS}, their_assets : {0, 1},
     duplicate : BOOLEAN, partner_id : {79925588},
     token : Option({"Ob27qXzn"})]

\* ---------------------------------------------------------- pure functions
\* TradeOffer::validate: at most TRADE_MAX_ITEMS items in all, not both sides
\* empty, no asset twice on a side; the first rule broken is the error
validate(trade) ==
    IF trade.my_assets + trade.their_assets > TRADE_MAX_ITEMS
    THEN Err(Error("ValidationError", "too many items", 0))
    ELSE IF trade.my_assets = 0 /\ trade.their_assets = 0
    THEN Err(Error("ValidationError", "empty offer", 0))
    ELSE IF trade.duplicate
    THEN Err(Error("ValidationError", "duplicate asset", 0))
    ELSE Ok(0)

\* prepare_offer: the offer is validated, and then made a create request
prepare_offer_unchecked(trade) == Ok(0)

prepare_offer(trade) == validate(trade)

\* error_from_strmessage: the string table; a message it does not list is a
\* GeneralFailure that carries the message
error_from_strmessage(msg) ==
    IF msg = KnownMessage THEN Some(Error("TradeHoldOrLimit", "", 0))
    ELSE Some(Error("GeneralFailure", msg, 0))

\* tradeoffer_error_from_eresult: the numeric table; a code it does not list
\* is a GeneralFailure
tradeoffer_error_from_eresult(eresult) ==
    IF eresult = KnownEResult THEN Error("LimitExceeded", "", 0)
    ELSE Error("GeneralFailure", "eresult", 0)

\* The tail of request: what it makes of the response text.  link is
\* partner_id_and_token, guard the answer check_steam_guard_error gives when
\* it is asked.  guard_checked tells whether it was asked.
Classified(tag, err, checked) == [tag |-> tag, err |-> err, guard_checked |-> checked]

ClassifyAbortsOnEmptyEnvelope(text, link, guard) ==
    IF text.asT THEN Classified("Ok", NoError, FALSE)
    ELSE IF text.asErr /\ IsSome(text.error_message)
    THEN Classified("Err", Unwrap(error_from_strmessage(Unwrap(text.error_message))), FALSE)
    ELSE IF text.asErr /\ IsSome(text.eresult)
    THEN Classified("Err", tradeoffer_error_from_eresult(Unwrap(text.eresult)), FALSE)
    ELSE IF text.asErr THEN Classified("Panic", NoError, FALSE)
    ELSE Classified("Err", Error("GeneralFailure", text.raw, 0), IsSome(link))

\* eresult looked up before error_message
ClassifyEResultFirst(text, link, guard) ==
    IF text.asT THEN Classified("Ok", NoError, FALSE)
    ELSE IF text.asErr /\ IsSome(text.eresult)
    THEN Classified("Err", tradeoffer_error_from_eresult(Unwrap(text.eresult)), FALSE)
    ELSE IF text.asErr /\ IsSome(text.error_message)
    THEN Classified("Err", Unwrap(error_from_strmessage(Unwrap(text.error_message))), FALSE)
    ELSE IF text.asErr
    THEN Classified("Err", Error("GeneralFailure", text.raw, 0), FALSE)
    ELSE IF IsSome(link) /\ guard.tag = "Err"
         THEN Classified("Err", guard.err, TRUE)
         ELSE Classified("Err", Error("GeneralFailure", text.raw, 0), IsSome(link))

\* GeneralFailure without the response text
ClassifyDropsText(text, link, guard) ==
    IF text.asT THEN Classified("Ok", NoError, FALSE)
    ELSE IF text.asErr /\ IsSome(text.error_message)
    THEN Classified("Err", Unwrap(error_from_strmessage(Unwrap(text.error_message))), FALSE)
    ELSE IF text.asErr /\ IsSome(text.eresult)
    THEN Classified("Err", tradeoffer_error_from_eresult(Unwrap(text.eresult)), FALSE)
    ELSE IF text.asErr
    THEN Classified("Err", Error("GeneralFailure", "", 0), FALSE)
    ELSE IF IsSome(link) /\ guard.tag = "Err"
         THEN Classified("Err", guard.err, TRUE)
         ELSE Classified("Err", Error("GeneralFailure", "", 0), IsSome(link))

\* the guard check made for an envelope without fields too
ClassifyGuardOnEnvelope(text, link, guard) ==
    IF text.asT THEN Classified("Ok", NoError, FALSE)
    ELSE IF text.asErr /\ IsSome(text.error_message)
    THEN Classified("Err", Unwrap(error_from_strmessage(Unwrap(text.error_message))), FALSE)
    ELSE IF text.asErr /\ IsSome(text.eresult)
    THEN Classified("Err", tradeoffer_error_from_eresult(Unwrap(text.eresult)), FALSE)
    ELSE IF IsSome(link) /\ guard.tag = "Err"
         THEN Classified("Err", guard.err, TRUE)
         ELSE Classified("Err", Error("GeneralFailure", text.raw, 0), IsSome(link))

Classify(text, link, guard) ==
    IF text.asT THEN Classified("Ok", NoError, FALSE)
    ELSE IF text.asErr
    THEN IF IsSome(text.error_message)
         THEN LET e == error_from_strmessage(Unwrap(text.error_message))
              IN  IF IsNone(e) THEN Classified("Panic", NoError, FALSE)
                  ELSE Classified("Err", Unwrap(e), FALSE)
         ELSE IF IsSome(text.eresult)
         THEN Classified("Err", tradeoffer_error_from_eresult(Unwrap(text.eresult)), FALSE)
         ELSE Classified("Err", Error("GeneralFailure", text.raw, 0), FALSE)
    ELSE IF IsSome(link) /\ guard.tag = "Err"
         THEN Classified("Err", guard.err, TRUE)
         ELSE Classified("Err", Error("GeneralFailure", text.raw, 0), IsSome(link))

\* create_offer's map_ok: tradeofferid.map(|x| i64::from_str(x).unwrap()).unwrap()
CreateOfferId(text) ==
    IF IsNone(text.tradeofferid) THEN Panic
    ELSE LET n == ParseI64(Unwrap(text.tradeofferid))
         IN  IF IsNone(n) THEN Panic ELSE Ok(Unwrap(n))

\* accept_offer's test of needs_mobile_confirmation:
\*   is_none() && !unwrap()
\* "return" is the early Ok(()), "confirm" goes on to the confirmations
NeedsMobileConfirmation(text) ==
    IF IsNone(text.needs_mobile_confirmation) THEN "panic"
    ELSE "confirm"

\* get_tradeoffer_by_id: filter_by keeps the offers of that id, in the
\* answer's order
get_tradeoffer_by_id(offers, id) ==
    SelectSeq(offers, LAMBDA o : o.tradeofferid = id)

\* Vec::first
first(v) == IF v = <<>> THEN None ELSE Some(v[1])

\* SteamID::from_steam3(accountid).to_steam64(): the individual account of
\* the public universe, as <<high 32 bits, low 32 bits>>
to_steam64(accountid) == <<17825793, accountid>>

\* Confirmations::filter_by_trade_offer_ids: the confirmations of these offers
filter_by_trade_offer_ids(conf, ids) ==
    {c \in conf : IsSome(c.related_trade_offer_id)
                  /\ Unwrap(c.related_trade_offer_id) \in ids}

\* the closure create_offer_and_confirm and accept_offer map over the fetched
\* confirmations
KeepAllConfirmations(conf, tradeoffer_id) == conf

MatchedConfirmations(conf, tradeoffer_id) ==
    filter_by_trade_offer_ids(conf, {tradeoffer_id})

\* ------------------------------------------------------------ trade history
\* The i64 ids of trades and assets are written by their decimal digits, as
\* the GetTradeHistory document carries them.
Asset(assetid, new_assetid) == [assetid |-> assetid, new_assetid |-> new_assetid]

Trade(id, given, received) ==
    [tradeid |-> id, assets_given |-> given, assets_received |-> received]

\* the document of the tests: its trades, with the assets of each
sample_trade_history_response ==
    << Trade("3622543526924228084",
             <<Asset("15319724006", "19793871926")>>,
             <<>>),
       Trade("3151905948742966439",
             <<>>,
             <<Asset("17300115678", "19034292089")>>),
       Trade("3151905948742946486",
             <<>>,
             <<Asset("17341684309", "19034259977")>>),
       Trade("3151905948734426645",
             <<>>,
             <<Asset("8246208960", "19019879428"), Asset("11589364986", "19019879441")>>),
       Trade("2816382071757670028",
             <<>>,
             <<Asset("17921552800", "18426035472")>>),
       Trade("2289455842905057389",
             <<Asset("16832065568", "18074934023")>>,
             <<>>),
       Trade("2022547174628342555",
             <<>>,
             <<Asset("4345999", "13327873664")>>),
       Trade("2022547174628335361",
             <<>>,
             <<Asset("12792180950", "13327860916"), Asset("1667881814169014779", "1827766562939536102")>>),
       Trade("2022547174624411155",
             <<>>,
             <<Asset("13213233361", "13314519275"), Asset("2364813217118906230", "1827766492051349432"), Asset("1807498550407081772", "1827766492051349437")>>),
       Trade("1640843092290105607",
             <<Asset("4063307518", "9937692380")>>,
             <<>>) >>

SampleTradeId == "3622543526924228084"

\* the longest generated history
MaxTrades == 2

ShortTradeIds == {"71", "72", "73"}

\* the assets a generated trade can give and receive
GivenOf(id) == <<Asset(id \o "01", id \o "91")>>
ReceivedOf(id) == <<Asset(id \o "02", id \o "92"), Asset(id \o "03", id \o "93")>>

TradeAssets == {"none", "given", "received", "both"}

TradeIdLists ==
    {l \in UNION {[1..n -> ShortTradeIds] : n \in 0..MaxTrades} :
        \A i, j \in DOMAIN l : i # j => l[i] # l[j]}

\* a GetTradeHistory answer: the trades of ids, each with the assets of what
TradeHistory(ids, what) ==
    [i \in DOMAIN ids |->
        Trade(ids[i],
              IF what[i] \in {"given", "both"} THEN GivenOf(ids[i]) ELSE <<>>,
              IF what[i] \in {"received", "both"} THEN ReceivedOf(ids[i]) ELSE <<>>)]

\* the trades get_new_assetids is asked about
TradeIds == ShortTradeIds \cup {SampleTradeId, "3151905948734426645"}

\* filter_by(|trade| trade.tradeid == tradeid) on the answer of GetTradeHistory
trades_by_tradeid(trades, id) == SelectSeq(trades, LAMBDA t : t.tradeid = id)

\* swap_remove(0): the first trade of a list that is not empty
swap_remove_0(trades) == Head(trades)

\* HasAssets::every_asset: the assets given, then the assets received
every_asset(trade) == trade.assets_given \o trade.assets_received

old_assetids(trade) ==
    [i \in DOMAIN every_asset(trade) |-> every_asset(trade)[i].assetid]

\* get_new_assetids' result for the trade found: the new_assetid of every asset
new_assetids_of(trade) ==
    [i \in DOMAIN every_asset(trade) |-> every_asset(trade)[i].new_assetid]

\* -------------------------------------------------------------------- state
VARIABLES
    sessionid,      \* the "sessionid" cookie of the authenticator, an Option
    api_key,        \* the API key the authenticator has cached, an Option
    api_client,     \* SteamTradeManager.api_client, an Option of the serial
                    \* number of the SteamAPI it holds
    constructed,    \* how many times SteamAPI::new has been called
    borrows,        \* the Refs of api_client that are held
    other,          \* a second get_trade_offers call that the caller runs
                    \* on the same task: "idle", or "offers" while it is
                    \* suspended in its round trip
    op,             \* the public operation that runs, "" when none has run
    pc,             \* where the operation is suspended
    offer,          \* the TradeOffer the operation was given, an Option
    tradeoffer_id,  \* the offer the operation is about, an Option
    lookup,         \* accept_offer: the partners of the offers of that id in
                    \* the GetTradeOffers answer, an Option of a set
    link,           \* request's partner_id_and_token, an Option
    io,             \* the calls the operation has made to its collaborators
    sent,           \* the payload of the accept request that was posted, an Option
    response_text,  \* the text the POST was answered with, an Option
    request_result, \* what request made of it: Ok, Err(e) or Panic
    fetched,        \* what fetch_confirmations answered
    submitted,      \* what process_confirmations was given, an Option of a set
    processed,      \* what process_confirmations answered
    futs,           \* decline_received_offers: deny_offers_fut, in push order
    first_done,     \* decline_received_offers: the future whose POST resolved first
    observed,       \* decline_received_offers: the results the loop has taken
    declinable,     \* decline_received_offers: the ids of the offers of the
                    \* snapshot that are Active and not ours
    tradeid,        \* get_new_assetids: the trade it was asked about, an Option
    history,        \* get_new_assetids: the trades GetTradeHistory answered, an Option
    new_assetids,   \* get_new_assetids: the ids it returned, an Option
    guard_result,   \* what check_steam_guard_error answered, Pending when not asked
    already_borrowed, \* a borrow_mut of api_client was tried while a Ref was held
    ret             \* what the operation returned

vars == <<sessionid, api_key, api_client, constructed, borrows, other, op, pc, offer, tradeoffer_id, lookup,
          link, io, sent, response_text, request_result, fetched, submitted,
          processed, futs, first_done, observed, declinable, tradeid, history,
          new_assetids, guard_result,
          already_borrowed,
          ret>>

manager == <<sessionid, api_key>>
cell == <<api_client, constructed, borrows, other, already_borrowed>>
args == <<op, offer, tradeoffer_id, lookup>>
answer == <<response_text, request_result, guard_result>>
batch == <<futs, first_done, observed, declinable>>
reconcile == <<fetched, submitted, processed>>
traded == <<tradeid, history, new_assetids>>

Init ==
    /\ sessionid \in Option({"sid"})
    /\ api_key \in Option({"key"})
    /\ api_client = None
    /\ constructed = 0
    /\ borrows = 0
    /\ other = "idle"
    /\ op = ""
    /\ pc = "idle"
    /\ offer = None
    /\ tradeoffer_id = None
    /\ lookup = None
    /\ link = None
    /\ io = <<>>
    /\ sent = None
    /\ response_text = None
    /\ request_result = Pending
    /\ fetched = Fetched("Pending", NoError, None)
    /\ submitted = None
    /\ processed = Pending
    /\ futs = <<>>
    /\ first_done = 0
    /\ observed = <<>>
    /\ already_borrowed = FALSE
    /\ guard_result = Pending
    /\ new_assetids = None
    /\ history = None
    /\ tradeid = None
    /\ declinable = {}
    /\ ret = Pending

Idle == pc = "idle"

\* a public operation is called: its locals are fresh
Call(name, trade, id, tid) ==
    /\ Idle
    /\ op' = name
    /\ offer' = trade
    /\ tradeoffer_id' = id
    /\ lookup' = None
    /\ response_text' = None
    /\ request_result' = Pending
    /\ fetched' = Fetched("Pending", NoError, None)
    /\ submitted' = None
    /\ processed' = Pending
    /\ futs' = <<>>
    /\ first_done' = 0
    /\ observed' = <<>>
    /\ guard_result' = Pending
    /\ new_assetids' = None
    /\ history' = None
    /\ tradeid' = tid
    /\ declinable' = {}

\* The caller has taken the result of the operation: the manager is as it
\* was made, but for the API client it keeps, and the next operation can be
\* called.
Returned ==
    /\ pc = "done"
    /\ pc' = "idle"
    /\ op' = ""
    /\ offer' = None
    /\ tradeoffer_id' = None
    /\ lookup' = None
    /\ link' = None
    /\ io' = <<>>
    /\ sent' = None
    /\ response_text' = None
    /\ request_result' = Pending
    /\ fetched' = Fetched("Pending", NoError, None)
    /\ submitted' = None
    /\ processed' = Pending
    /\ futs' = <<>>
    /\ first_done' = 0
    /\ observed' = <<>>
    /\ already_borrowed' = FALSE
    /\ guard_result' = Pending
    /\ new_assetids' = None
    /\ history' = None
    /\ tradeid' = None
    /\ declinable' = {}
    /\ ret' = Pending
    /\ UNCHANGED <<manager, api_client, constructed, borrows, other>>

\* the operation returns r (or panics)
Return(r) ==
    /\ pc' = "done"
    /\ ret' = r

PayloadError ==
    Error("PayloadError", "Somehow you don't have a sessionid cookie. You need to login first.", 0)

\* request, from the sessionid cookie to the POST: without the cookie it
\* returns PayloadError, with it the request is posted and awaited
InjectAndPost(id, before) ==
    IF IsNone(sessionid)
    THEN /\ io' = before
         /\ Return(Err(PayloadError))
    ELSE /\ io' = Append(before, Event("POST", id))
         /\ pc' = "post"
         /\ ret' = Pending

\* request(TradeKind::Create(offer), None) up to its first await
RequestCreate(trade) ==
    /\ link' = Some(<<trade.partner_id, trade.token>>)
    /\ sent' = None
    /\ UNCHANGED <<manager, cell>>
    /\ LET req == prepare_offer(trade)
       IN  IF req.tag = "Err"
           THEN /\ io' = <<>>
                /\ Return(req)
           ELSE InjectAndPost(0, <<>>)

create_offer ==
    \E trade \in TradeOffers :
        /\ Call("create_offer", Some(trade), None, None)
        /\ RequestCreate(trade)

create_offer_and_confirm ==
    \E trade \in TradeOffers :
        /\ Call("create_offer_and_confirm", Some(trade), None, None)
        /\ RequestCreate(trade)

\* request(Cancel | Decline, Some(id)) up to its first await
RequestGeneric(id) ==
    /\ link' = None
    /\ sent' = None
    /\ UNCHANGED <<manager, cell>>
    /\ InjectAndPost(id, <<>>)

deny_offer ==
    \E id \in OfferIds :
        /\ Call("deny_offer", None, Some(id), None)
        /\ RequestGeneric(id)

cancel_offer ==
    \E id \in OfferIds :
        /\ Call("cancel_offer", None, Some(id), None)
        /\ RequestGeneric(id)

\* SteamAPI::new is called whatever the cell holds
lazy_web_api_client_renewed(client) == Some(constructed + 1)

\* lazy_web_api_client, under its borrow_mut: the cell keeps the client it
\* has, and gets a new one when it has none
lazy_web_api_client(client) ==
    IF IsNone(client) THEN Some(constructed + 1) ELSE client

\* lazy_web_api_client(api_key).borrow(): the borrow_mut is given up at the
\* end of its block, and the Ref is held until the read call has returned
Borrow ==
    /\ api_client' = lazy_web_api_client(api_client)
    /\ constructed' = IF api_client' = api_client THEN constructed
                      ELSE constructed + 1
    /\ borrows' = borrows + 1

\* the read call has returned: its Ref is dropped
Release ==
    /\ borrows' = borrows - 1
    /\ UNCHANGED <<api_client, constructed, other, already_borrowed>>

\* borrow_mut while a Ref is held panics ("already borrowed"): the task
\* unwinds, its futures are dropped and their Refs with them
BorrowMutError ==
    /\ already_borrowed' = TRUE
    /\ borrows' = 0
    /\ other' = "idle"
    /\ UNCHANGED <<api_client, constructed>>
    /\ Return(Panic)

\* a read-endpoint call up to its await: the API key must be cached
\* (expect), the client is borrowed, the call ev is sent
ReadEndpoint(ev, at) ==
    IF IsNone(api_key)
    THEN /\ io' = <<>>
         /\ UNCHANGED cell
         /\ Return(Panic)
    ELSE IF borrows > 0
    THEN /\ io' = <<>>
         /\ BorrowMutError
    ELSE /\ io' = <<ev>>
         /\ Borrow
         /\ UNCHANGED <<other, already_borrowed>>
         /\ pc' = at
         /\ ret' = Pending

\* get_trade_offers up to its await
GetTradeOffers == ReadEndpoint(Event("GetTradeOffers", 0), "offers")

\* accept_offer: request(Accept, Some(id)) up to get_tradeoffer_by_id's await
accept_offer ==
    \E id \in OfferIds :
        /\ Call("accept_offer", None, Some(id), None)
        /\ link' = None
        /\ sent' = None
        /\ UNCHANGED manager
        /\ GetTradeOffers

\* their_steamid of the accept request, None when get_tradeoffer_by_id found
\* no offer: SteamID::from_steam3(c.tradeofferid as u32, ..).to_steam64() of
\* the first offer found.  The offer ids here are below 2^32, where the cast
\* keeps the value.
AcceptPartnerOrOwnId(offers, id) == Some(to_steam64(id))

AcceptPartner(offers, id) ==
    LET found == first(get_tradeoffer_by_id(offers, id))
    IN  IF IsNone(found) THEN None
        ELSE Some(to_steam64(Unwrap(found).tradeofferid))

\* get_tradeoffer_by_id resolves in request(Accept): an error of the call is
\* returned, no offer of that id is NoMatch, else the request is posted
AcceptLookupDone ==
    /\ pc = "offers"
    /\ op = "accept_offer"
    /\ UNCHANGED <<manager, traded, op, offer, tradeoffer_id, link, answer,
                   reconcile, batch>>
    /\ Release
    /\ \/ \E e \in TransportErrors :
            /\ lookup' = None
            /\ sent' = None
            /\ io' = io
            /\ Return(Err(e))
       \/ \E ids \in OfferIdLists : \E rest \in [DOMAIN ids -> OfferRest] :
            LET offers == OffersResponse(ids, rest)
                id == Unwrap(tradeoffer_id)
                partner_id == AcceptPartner(offers, id)
            IN  /\ lookup' = Some({offers[i].accountid_other : i \in
                                    {j \in DOMAIN offers : offers[j].tradeofferid = id}})
                /\ IF IsNone(partner_id)
                   THEN /\ sent' = None
                        /\ io' = io
                        /\ Return(Err(Error("NoMatch", "", 0)))
                   ELSE /\ sent' = IF IsNone(sessionid) THEN None
                                   ELSE Some([their_steamid |-> Unwrap(partner_id),
                                              tradeofferid |-> id])
                        /\ InjectAndPost(id, io)

\* the error of an operation whose confirmations were not found
AcceptNotFoundAsCreate(id) == Error("NotFoundButTradeCreated", "", id)

CreateNotFound(id) == Error("NotFoundButTradeCreated", "", id)

AcceptNotFound(id) == Error("NotFound", "", 0)

NotFound(id) ==
    IF op = "create_offer_and_confirm" THEN CreateNotFound(id) ELSE AcceptNotFound(id)

\* fetch_confirmations is called
FetchConfirmations(before) ==
    /\ io' = Append(before, Event("fetch_confirmations", 0))
    /\ pc' = "confirmations"
    /\ ret' = Pending

\* what the operation does with a response that parsed as T
Parsed(text, before) ==
    CASE op = "create_offer" ->
            /\ tradeoffer_id' = IF CreateOfferId(text).tag = "Ok"
                                THEN Some(CreateOfferId(text).id) ELSE None
            /\ io' = before
            /\ Return(CreateOfferId(text))
      [] op = "create_offer_and_confirm" ->
            IF CreateOfferId(text).tag = "Ok"
            THEN /\ tradeoffer_id' = Some(CreateOfferId(text).id)
                 /\ io' = before
                 /\ pc' = "delay"
                 /\ ret' = Pending
            ELSE /\ tradeoffer_id' = None
                 /\ io' = before
                 /\ Return(CreateOfferId(text))
      [] op = "accept_offer" ->
            /\ tradeoffer_id' = tradeoffer_id
            /\ CASE NeedsMobileConfirmation(text) = "panic" ->
                        /\ io' = before
                        /\ Return(Panic)
                 [] NeedsMobileConfirmation(text) = "return" ->
                        /\ io' = before
                        /\ Return(Ok(0))
                 [] OTHER -> FetchConfirmations(before)
      [] OTHER ->
            /\ tradeoffer_id' = tradeoffer_id
            /\ io' = before
            /\ Return(Ok(0))

\* the request is posted again after a failure
FailedAndRetried(r, after) ==
    /\ tradeoffer_id' = tradeoffer_id
    /\ io' = Append(after, io[Len(io)])
    /\ pc' = "post"
    /\ ret' = Pending

\* request has failed: the operation ends with the error, or the panic
Failed(r, after) ==
    /\ tradeoffer_id' = tradeoffer_id
    /\ io' = after
    /\ Return(r)

\* the POST resolves: a transport error is returned, a text is classified
PostDone ==
    /\ pc = "post"
    /\ op # "decline_received_offers"
    /\ UNCHANGED <<manager, traded, cell, op, offer, lookup, link, sent, reconcile,
                   batch>>
    /\ \/ \E e \in TransportErrors :
            /\ response_text' = None
            /\ request_result' = Err(e)
            /\ guard_result' = Pending
            /\ Failed(Err(e), io)
       \/ \E text \in ResponseTexts, guard \in {Ok(0)} \cup {Err(e) : e \in GuardErrors} :
            LET c == Classify(text, link, guard)
                after == IF c.guard_checked
                         THEN Append(io, Event("check_steam_guard_error", 0))
                         ELSE io
            IN  /\ response_text' = Some(text)
                /\ guard_result' = IF c.guard_checked THEN guard ELSE Pending
                /\ request_result' = CASE c.tag = "Ok" -> Ok(0)
                                        [] c.tag = "Err" -> Err(c.err)
                                        [] OTHER -> Panic
                /\ IF c.tag = "Ok" THEN Parsed(text, after)
                   ELSE Failed(IF c.tag = "Err" THEN Err(c.err) ELSE Panic, after)

\* create_offer_and_confirm: the Delay elapses, fetch_confirmations is called
DelayDone ==
    /\ pc = "delay"
    /\ UNCHANGED <<manager, traded, cell, args, link, sent, answer, reconcile, batch>>
    /\ FetchConfirmations(Append(io, Event("Delay", STANDARD_DELAY)))

\* what create_offer_and_confirm and accept_offer return once
\* process_confirmations has answered r
ConfirmedEvenIfFailed(r, id) == Ok(IF op = "create_offer_and_confirm" THEN id ELSE 0)

Confirmed(r, id) ==
    IF r.tag = "Err" THEN r
    ELSE Ok(IF op = "create_offer_and_confirm" THEN id ELSE 0)

\* fetch_confirmations resolves: its error is returned; None is the
\* operation's not-found error; else the confirmations are filtered by the
\* offer and given to process_confirmations
ConfirmationsDone ==
    /\ pc = "confirmations"
    /\ UNCHANGED <<manager, traded, cell, args, link, sent, answer, processed, batch>>
    /\ \/ \E e \in AuthErrors :
            /\ fetched' = Fetched("Err", e, None)
            /\ UNCHANGED <<submitted, io>>
            /\ Return(Err(e))
       \/ \E conf \in Option(ConfirmationSets) :
            LET id == Unwrap(tradeoffer_id)
                confirmations ==
                    IF IsNone(conf) THEN None
                    ELSE Some(MatchedConfirmations(Unwrap(conf), id))
            IN  /\ fetched' = Fetched("Ok", NoError, conf)
                /\ IF IsNone(confirmations)
                   THEN /\ UNCHANGED <<submitted, io>>
                        /\ Return(Err(NotFound(id)))
                   ELSE /\ submitted' = confirmations
                        /\ io' = Append(io, Event("process_confirmations", 0))
                        /\ pc' = "processing"
                        /\ ret' = Pending

\* process_confirmations resolves
ProcessDone ==
    /\ pc = "processing"
    /\ UNCHANGED <<manager, traded, cell, args, link, sent, answer, fetched,
                   submitted, batch, io>>
    /\ \E r \in {Ok(0)} \cup {Err(e) : e \in AuthErrors} :
            /\ processed' = r
            /\ Return(Confirmed(r, Unwrap(tradeoffer_id)))

\* ------------------------------------------------ decline_received_offers
\* One future of deny_offers_fut: deny_offer(id).map_ok(|_| Delay::new(..)).
\* st is "new" until it is polled, "posted" while its POST is awaited, "done"
\* with its output res.  The Delay an Ok output holds is never awaited.
\* map_ok(|_| Delay::new(..)): the Ok value of a decline is a pacing Delay
\* that has been created; nothing awaits it, so it never elapses.
map_ok_Delay(res) == IF res.tag = "Ok" THEN "created" ELSE "none"

Fut(id, st, res) ==
    [id |-> id, st |-> st, res |-> res, delay |-> map_ok_Delay(res)]

decline_received_offers ==
    /\ Call("decline_received_offers", None, None, None)
    /\ link' = None
    /\ sent' = None
    /\ UNCHANGED manager
    /\ GetTradeOffers

active_offers(offers) ==
    SelectSeq(offers, LAMBDA o : o.state = "Active")

\* the offers decline_received_offers declines: filter_by keeps the active
\* offers that are not ours, in the answer's order
active_received_offers(offers) ==
    SelectSeq(offers, LAMBDA o : o.state = "Active" /\ ~o.is_our_offer)

\* The loop over deny_offers_fut.next(), run until next() is pending.
\* FuturesOrdered yields the outputs in push order: the output of the future
\* after the ones observed, once that future is done.  An Err ends the loop
\* and is returned; when no future is left the operation returns Ok.
DrainInCompletionOrder(fs, obs) ==
    IF \E i \in DOMAIN fs : fs[i].st = "done" /\ fs[i].res.tag = "Err"
    THEN LET i == CHOOSE i \in DOMAIN fs : fs[i].st = "done" /\ fs[i].res.tag = "Err"
         IN  [observed |-> Append(obs, fs[i].res), ret |-> fs[i].res]
    ELSE IF \A i \in DOMAIN fs : fs[i].st = "done"
    THEN [observed |-> [i \in DOMAIN fs |-> fs[i].res], ret |-> Ok(0)]
    ELSE [observed |-> obs, ret |-> Pending]

RECURSIVE Drain(_, _)
Drain(fs, obs) ==
    LET n == Len(obs) + 1
    IN  IF n > Len(fs) THEN [observed |-> obs, ret |-> Ok(0)]
        ELSE IF fs[n].st # "done" THEN [observed |-> obs, ret |-> Pending]
        ELSE IF fs[n].res.tag = "Ok" THEN Drain(fs, Append(obs, fs[n].res))
        ELSE [observed |-> Append(obs, fs[n].res), ret |-> fs[n].res]

\* the loop has run as far as it can: it returns, or awaits next()
Loop(fs, obs) ==
    LET d == Drain(fs, obs)
    IN  /\ observed' = d.observed
        /\ ret' = d.ret
        /\ pc' = IF d.ret.tag = "Pending" THEN "next" ELSE "done"

\* The first poll of next(): the futures are polled in push order, and each
\* runs request(Decline) to its POST.  Without the sessionid cookie the first
\* one is done at once with PayloadError, next() yields it, and the others
\* are never polled.
FirstPollOnlyHead(ids) ==
    [i \in DOMAIN ids |->
        IF i > 1 THEN Fut(ids[i], "new", Pending)
        ELSE IF IsNone(sessionid) THEN Fut(ids[i], "done", Err(PayloadError))
        ELSE Fut(ids[i], "posted", Pending)]

FirstPoll(ids) ==
    IF IsNone(sessionid)
    THEN [i \in DOMAIN ids |->
            IF i = 1 THEN Fut(ids[i], "done", Err(PayloadError))
            ELSE Fut(ids[i], "new", Pending)]
    ELSE [i \in DOMAIN ids |-> Fut(ids[i], "posted", Pending)]

\* get_trade_offers resolves in decline_received_offers
DeclineOffersDone ==
    /\ pc = "offers"
    /\ op = "decline_received_offers"
    /\ UNCHANGED <<manager, traded, args, link, sent, answer, reconcile,
                   first_done>>
    /\ Release
    /\ \/ \E e \in TransportErrors :
            /\ UNCHANGED <<futs, observed, declinable, io>>
            /\ Return(Err(e))
       \/ \E listed \in OfferIdLists : \E rest \in [DOMAIN listed -> OfferRest] :
            LET offers == OffersResponse(listed, rest)
                active == active_received_offers(offers)
                ids == [i \in DOMAIN active |-> active[i].tradeofferid]
                fs == FirstPoll(ids)
            IN  /\ futs' = fs
                /\ declinable' = {offers[i].tradeofferid : i \in
                        {j \in DOMAIN offers : /\ offers[j].state = "Active"
                                               /\ offers[j].is_our_offer = FALSE}}
                /\ io' = io \o [i \in DOMAIN SelectSeq(fs, LAMBDA f : f.st = "posted") |->
                                  Event("POST", fs[i].id)]
                /\ Loop(fs, <<>>)

\* the POST of one decline resolves, and next() is polled again
DeclineDone ==
    /\ pc = "next"
    /\ UNCHANGED <<manager, traded, cell, args, link, sent, answer, reconcile, io,
                   declinable>>
    /\ \E i \in DOMAIN futs :
        /\ futs[i].st = "posted"
        /\ first_done' = IF first_done = 0 THEN i ELSE first_done
        /\ \E r \in {Err(e) : e \in TransportErrors}
                    \cup {LET c == Classify(text, None, Ok(0))
                          IN  IF c.tag = "Ok" THEN Ok(0)
                              ELSE IF c.tag = "Panic" THEN Panic ELSE Err(c.err)
                          : text \in DeclineTexts} :
            LET fs == [futs EXCEPT ![i] = Fut(futs[i].id, "done", r)]
            IN  /\ futs' = fs
                /\ IF r.tag = "Panic"
                   THEN /\ observed' = observed
                        /\ Return(Panic)
                   ELSE Loop(fs, observed)

\* get_trade_offers_history up to its await: the API key must be cached
\* (expect), the client is made if there is none, GetTradeHistory is called
\* for max_trades.unwrap_or(500) trades
GetTradeHistory == ReadEndpoint(Event("GetTradeHistory", 500), "history")

get_new_assetids ==
    \E id \in TradeIds :
        /\ Call("get_new_assetids", None, None, Some(id))
        /\ link' = None
        /\ sent' = None
        /\ UNCHANGED manager
        /\ GetTradeHistory

\* get_trade_offers_history resolves in get_new_assetids: an error is
\* returned; else the trades are filtered and the first one found gives the
\* ids, and swap_remove(0) panics when none was found
FoundTrade(trades) ==
    LET found == trades_by_tradeid(trades, Unwrap(tradeid))
    IN  /\ history' = Some(trades)
        /\ IF found = <<>>
           THEN /\ new_assetids' = None
                /\ Return(Panic)
           ELSE /\ new_assetids' = Some(new_assetids_of(swap_remove_0(found)))
                /\ Return(Ok(0))

HistoryDone ==
    /\ pc = "history"
    /\ UNCHANGED <<manager, args, link, sent, answer, reconcile,
                   batch, io, tradeid>>
    /\ Release
    /\ \/ \E e \in TransportErrors :
            /\ UNCHANGED <<history, new_assetids>>
            /\ Return(Err(e))
       \/ FoundTrade(sample_trade_history_response)
       \/ \E ids \in TradeIdLists : \E what \in [DOMAIN ids -> TradeAssets] :
            FoundTrade(TradeHistory(ids, what))

\* everything but the cell of the client and the result of the operation
running == <<manager, traded, args, link, io, sent, answer, reconcile, batch>>

\* The caller runs a second get_trade_offers on the task of the operation,
\* with the API key cached: it starts while the operation is idle or
\* suspended, and borrows the client as every read call does.
other_get_trade_offers ==
    /\ other = "idle"
    /\ pc # "done"
    /\ IsSome(api_key)
    /\ UNCHANGED running
    /\ IF borrows > 0
       THEN BorrowMutError
       ELSE /\ Borrow
            /\ other' = "offers"
            /\ UNCHANGED <<already_borrowed, pc, ret>>

\* the second get_trade_offers is answered and returns: its Ref is dropped
OtherOffersDone ==
    /\ other = "offers"
    /\ other' = "idle"
    /\ borrows' = borrows - 1
    /\ UNCHANGED <<running, api_client, constructed, already_borrowed, pc, ret>>

Next ==
    \/ create_offer
    \/ create_offer_and_confirm
    \/ accept_offer
    \/ deny_offer
    \/ cancel_offer
    \/ decline_received_offers
    \/ get_new_assetids
    \/ other_get_trade_offers
    \/ AcceptLookupDone
    \/ PostDone
    \/ DelayDone
    \/ ConfirmationsDone
    \/ ProcessDone
    \/ DeclineOffersDone
    \/ DeclineDone
    \/ HistoryDone
    \/ OtherOffersDone
    \/ Returned

Spec == Init /\ [][Next]_vars

\* ------------------------------------------------------------- properties
HasEvent(ev) == \E i \in DOMAIN io : io[i].ev = ev

Creates == {"create_offer", "create_offer_and_confirm"}
Requests == Creates \cup {"accept_offer", "deny_offer", "cancel_offer"}

\* the id the Create response names, None when it names none
CreatedId ==
    IF IsSome(response_text) /\ Unwrap(response_text).asT
       /\ IsSome(Unwrap(response_text).tradeofferid)
    THEN ParseI64(Unwrap(Unwrap(response_text).tradeofferid))
    ELSE None

\* the Accept response says a mobile confirmation is needed
AcceptNeedsConfirmation ==
    /\ IsSome(response_text)
    /\ Unwrap(response_text).needs_mobile_confirmation = Some(TRUE)

\* C1: accept_offer(id), when the GetTradeOffers answer lists no offer whose
\* tradeofferid is id, returns OfferError::NoMatch; it has posted nothing to
\* the trade offer endpoint and has fetched and processed no confirmation.
C1_AcceptNoMatch ==
    (op = "accept_offer" /\ lookup = Some({})) =>
        /\ pc = "done"
        /\ ret = Err(Error("NoMatch", "", 0))
        /\ ~HasEvent("POST")
        /\ ~HasEvent("fetch_confirmations")
        /\ ~HasEvent("process_confirmations")
        /\ sent = None
        /\ fetched.tag = "Pending"
        /\ submitted = None

C1_Witness ==
    /\ op = "accept_offer"
    /\ lookup = Some({})
    /\ IsSome(sessionid)
    /\ io = <<Event("GetTradeOffers", 0)>>
    /\ ret = Err(Error("NoMatch", "", 0))

\* C2: whatever the operation (Create, Accept, Cancel, Decline), without the
\* sessionid cookie it returns PayloadError and has made no call at all,
\* neither the POST nor a call to a read endpoint.  (An offer that fails
\* validation and an API key that is not cached are left out.)
C2_NoSessionNoIO ==
    ( /\ op \in Requests
      /\ IsNone(sessionid)
      /\ IsSome(api_key)
      /\ (IsSome(offer) => validate(Unwrap(offer)).tag = "Ok") ) =>
        /\ pc = "done"
        /\ ret = Err(PayloadError)
        /\ io = <<>>

\* C3: create_offer and create_offer_and_confirm, given an offer that fails
\* validation, return the validation error and have made no call: no POST,
\* no confirmation fetched or processed, no guard check.
C3_InvalidOfferNoIO ==
    ( /\ op \in Creates
      /\ validate(Unwrap(offer)).tag = "Err" ) =>
        /\ pc = "done"
        /\ ret = validate(Unwrap(offer))
        /\ io = <<>>
        /\ response_text = None
        /\ fetched.tag = "Pending"
        /\ submitted = None

C3_Witness ==
    /\ op = "create_offer_and_confirm"
    /\ IsSome(sessionid)
    /\ Unwrap(offer).my_assets + Unwrap(offer).their_assets > TRADE_MAX_ITEMS
    /\ ret = Err(Error("ValidationError", "too many items", 0))
    /\ io = <<>>

\* C4: request makes exactly one of a success and a classified error of every
\* response text, and never aborts: it returns Ok exactly for the texts that
\* parse as the success shape, and an error with a kind for all others; so do
\* the declines of decline_received_offers.
C4_ClassificationTotal ==
    /\ IsSome(response_text) =>
        /\ request_result.tag \in {"Ok", "Err"}
        /\ request_result.tag = "Ok" <=> Unwrap(response_text).asT
        /\ request_result.tag = "Err" => request_result.err.kind # ""
    /\ \A i \in DOMAIN futs :
        futs[i].st = "done" =>
            /\ futs[i].res.tag \in {"Ok", "Err"}
            /\ futs[i].res.tag = "Err" => futs[i].res.err.kind # ""

C4_Witness ==
    /\ IsSome(response_text)
    /\ Unwrap(response_text).raw = "empty object"
    /\ request_result = Err(Error("GeneralFailure", "empty object", 0))
    /\ ret = request_result

\* no pending confirmation is of offer id: the list is absent, or empty, or
\* holds confirmations of other offers only
NoneOfOffer(conf, id) ==
    IsNone(conf) \/ \A c \in Unwrap(conf) : c.related_trade_offer_id # Some(id)

\* C5: after a Create or an Accept that succeeded, when no pending
\* confirmation is of the offer (the fetched list is absent, empty, or of
\* other offers only), nothing is submitted for acceptance and the operation
\* fails: NotFoundButTradeCreated(id) after Create, NotFound after Accept.
C5_NotFoundWhenNoneMatches ==
    ( /\ op \in {"create_offer_and_confirm", "accept_offer"}
      /\ (op = "accept_offer" => AcceptNeedsConfirmation)
      /\ fetched.tag = "Ok"
      /\ NoneOfOffer(fetched.conf, Unwrap(tradeoffer_id)) ) =>
        /\ pc = "done"
        /\ ret = Err(IF op = "accept_offer" THEN Error("NotFound", "", 0)
                     ELSE Error("NotFoundButTradeCreated", "", Unwrap(tradeoffer_id)))
        /\ (IsNone(submitted) \/ Unwrap(submitted) = {})

\* C6: create_offer_and_confirm never returns ConfirmationError::NotFound,
\* accept_offer never returns NotFoundButTradeCreated, and the id in the
\* NotFoundButTradeCreated(x) of create_offer_and_confirm is the id the Create
\* response named.
C6_NotFoundVariantByContext ==
    /\ op = "create_offer_and_confirm" => ret.err.kind # "NotFound"
    /\ op = "accept_offer" => ret.err.kind # "NotFoundButTradeCreated"
    /\ (op = "create_offer_and_confirm" /\ ret.err.kind = "NotFoundButTradeCreated") =>
            CreatedId = Some(ret.err.id)

C6_Witness ==
    /\ op = "create_offer_and_confirm"
    /\ pc = "done"
    /\ fetched = Fetched("Ok", NoError, None)
    /\ ret = Err(Error("NotFoundButTradeCreated", "", 2))

\* C7: after Create and after Accept alike, the pending confirmations are
\* fetched only once the pacing Delay that follows the POST has elapsed.
C7_DelayBeforeFetch ==
    (op = "accept_offer" => AcceptNeedsConfirmation) =>
        \A j \in DOMAIN io :
            io[j].ev = "fetch_confirmations" =>
                \E i \in 1..(j - 1) :
                    /\ io[i].ev = "Delay"
                    /\ \E k \in 1..(i - 1) : io[k].ev = "POST"

\* C8: what create_offer_and_confirm or accept_offer submits for acceptance
\* is exactly the set of the fetched confirmations whose
\* related_trade_offer_id is the offer id of the call: all of them, and none
\* of another offer.
C8_SubmittedAreOfTheOffer ==
    IsSome(submitted) =>
        /\ op \in {"create_offer_and_confirm", "accept_offer"}
        /\ op = "create_offer_and_confirm" => tradeoffer_id = CreatedId
        /\ fetched.tag = "Ok"
        /\ IsSome(fetched.conf)
        /\ Unwrap(submitted) =
                {c \in Unwrap(fetched.conf) :
                    c.related_trade_offer_id = Some(Unwrap(tradeoffer_id))}

C8_Witness ==
    /\ IsSome(submitted)
    /\ Unwrap(submitted) # {}
    /\ \E c \in Unwrap(fetched.conf) : c \notin Unwrap(submitted)
    /\ processed = Ok(0)
    /\ ret.tag = "Ok"

\* C9: create_offer_and_confirm returns Ok(id) only when the Create succeeded
\* with offer id and process_confirmations succeeded; it fetches and
\* processes confirmations only after the Create succeeded; and it returns the
\* error of fetch_confirmations or process_confirmations as it got it.
C9_CreateAndConfirmResult ==
    op = "create_offer_and_confirm" =>
        /\ ret.tag = "Ok" =>
            /\ request_result.tag = "Ok"
            /\ CreatedId = Some(ret.id)
            /\ IsSome(submitted)
            /\ processed = Ok(0)
        /\ ( \/ HasEvent("Delay")
             \/ HasEvent("fetch_confirmations")
             \/ HasEvent("process_confirmations")
             \/ fetched.tag # "Pending"
             \/ IsSome(submitted) ) =>
                /\ request_result.tag = "Ok"
                /\ IsSome(CreatedId)
        /\ fetched.tag = "Err" => (pc = "done" /\ ret = Err(fetched.err))
        /\ processed.tag = "Err" => (pc = "done" /\ ret = processed)

C9_Witness ==
    /\ op = "create_offer_and_confirm"
    /\ pc = "done"
    /\ ret = Ok(2)
    /\ Unwrap(submitted) # {}

\* C10: in decline_received_offers, the results the loop has taken are those
\* of the first declines in push order, each Ok but the last; when the
\* operation returns an error with N declines queued, the error is that of
\* the K-th decline, the first in push order to fail, and the results of
\* declines 1..K have been taken in that order, whatever the order in which
\* the declines resolved.
C10_FirstErrorInPushOrder ==
    op = "decline_received_offers" =>
        /\ Len(observed) <= Len(futs)
        /\ \A j \in DOMAIN observed :
            /\ futs[j].st = "done"
            /\ observed[j] = futs[j].res
            /\ j < Len(observed) => observed[j].tag = "Ok"
        /\ (pc = "done" /\ ret.tag = "Err" /\ futs # <<>>) =>
            /\ observed # <<>>
            /\ ret = futs[Len(observed)].res
        /\ (pc = "done" /\ ret.tag = "Ok") =>
            /\ Len(observed) = Len(futs)
            /\ \A j \in DOMAIN futs : futs[j].res.tag = "Ok"

C10_Witness ==
    /\ op = "decline_received_offers"
    /\ pc = "done"
    /\ Len(futs) = 3
    /\ Len(observed) = 2
    /\ first_done = 3
    /\ futs[3].res.tag = "Err"
    /\ ret.tag = "Err"
    /\ ret # futs[3].res

\* the POSTs of the operation for offer id
Posts(id) == {i \in DOMAIN io : io[i] = Event("POST", id)}

\* C11 (as claimed): when decline_received_offers has returned, with success
\* or with the first error, a Decline has been attempted for every offer it
\* queued, those queued after the first failing one included.
C11_EveryDeclineAttempted ==
    (op = "decline_received_offers" /\ pc = "done") =>
        \A i \in DOMAIN futs : futs[i].st # "new"

\* C11 (amended): with the sessionid cookie, once the loop has polled next()
\* every queued decline has posted its request, whatever the operation
\* returns; without the cookie the first decline fails at once with
\* PayloadError, the operation returns it, nothing is posted and the declines
\* queued after the first are never polled.
C11_DispatchUnlessFirstFailsAtOnce ==
    (op = "decline_received_offers" /\ pc \in {"next", "done"}) =>
        IF IsSome(sessionid)
        THEN \A i \in DOMAIN futs :
                /\ futs[i].st # "new"
                /\ Posts(futs[i].id) # {}
        ELSE /\ ~HasEvent("POST")
             /\ futs # <<>> =>
                /\ pc = "done"
                /\ ret = Err(PayloadError)
                /\ observed = <<Err(PayloadError)>>
                /\ \A i \in DOMAIN futs : i > 1 => futs[i].st = "new"

C11_Witness ==
    /\ op = "decline_received_offers"
    /\ pc = "done"
    /\ IsSome(sessionid)
    /\ Len(futs) = 3
    /\ observed = <<futs[1].res>>
    /\ ret.tag = "Err"
    /\ futs[2].st = "posted"
    /\ futs[3].st = "done"
    /\ Cardinality({i \in DOMAIN io : io[i].ev = "POST"}) = 3

\* C12: the outcome of a successful decline is observed by the draining loop
\* only after that decline's pacing delay of STANDARD_DELAY has elapsed.
C12_OkObservedAfterDelay ==
    op = "decline_received_offers" =>
        \A i \in DOMAIN observed :
            observed[i].tag = "Ok" =>
                \/ futs[i].delay = "elapsed"
                \/ Event("Delay", STANDARD_DELAY) \in {io[j] : j \in DOMAIN io}

\* C13: decline_received_offers queues one Decline for each offer of the
\* snapshot that is Active and not ours and for no other offer, posts a
\* Decline only for such an offer and never twice for the same one, and
\* returns success only if every one of those declines was posted and
\* resolved without error.
C13_DeclinesActiveReceivedOnly ==
    op = "decline_received_offers" =>
        /\ {futs[i].id : i \in DOMAIN futs} = declinable
        /\ Len(futs) = Cardinality(declinable)
        /\ \A i \in DOMAIN io :
              io[i].ev = "POST" =>
                 /\ io[i].id \in declinable
                 /\ Posts(io[i].id) = {i}
        /\ (pc = "done" /\ ret.tag = "Ok") =>
              \A i \in DOMAIN futs :
                 /\ Posts(futs[i].id) # {}
                 /\ futs[i].st = "done"
                 /\ futs[i].res.tag = "Ok"

C13_Witness ==
    /\ op = "decline_received_offers"
    /\ pc = "done"
    /\ ret.tag = "Ok"
    /\ Cardinality(declinable) = 2
    /\ Len(observed) = 2

\* the places of the answered history whose trade has the id asked about
Matching == {i \in DOMAIN Unwrap(history) :
                Unwrap(history)[i].tradeid = Unwrap(tradeid)}

\* the assets of a trade, given and received
AssetsOf(trade) ==
    {trade.assets_given[i] : i \in DOMAIN trade.assets_given}
        \cup {trade.assets_received[i] : i \in DOMAIN trade.assets_received}

\* C14: filtering the trade history by tradeid keeps exactly the records of
\* that tradeid, each with the (assetid, new_assetid) pairs of the document;
\* get_new_assetids returns the new_assetid of every asset of the matching
\* trade and nothing else, and on the sample document trade
\* 3622543526924228084, whose asset is 15319724006, gives 19793871926.
C14_NewAssetIdsOfMatchingTrade ==
    (op = "get_new_assetids" /\ IsSome(history)) =>
        LET trades == Unwrap(history)
            found == trades_by_tradeid(trades, Unwrap(tradeid))
        IN  /\ Len(found) = Cardinality(Matching)
            /\ \A k \in DOMAIN found :
                  \E i \in Matching : found[k] = trades[i]
            /\ ret.tag = "Ok" <=> Matching # {}
            /\ ret.tag = "Ok" =>
                  LET trade == trades[CHOOSE i \in Matching :
                                          \A j \in Matching : i <= j]
                      ids == Unwrap(new_assetids)
                  IN  /\ Len(ids) = Len(trade.assets_given)
                                        + Len(trade.assets_received)
                      /\ \A a \in AssetsOf(trade) :
                            \E k \in DOMAIN ids : ids[k] = a.new_assetid
                      /\ \A k \in DOMAIN ids :
                            \E a \in AssetsOf(trade) : ids[k] = a.new_assetid
            /\ (trades = sample_trade_history_response
                    /\ Unwrap(tradeid) = SampleTradeId) =>
                  /\ found[1].assets_given[1].assetid = "15319724006"
                  /\ new_assetids = Some(<<"19793871926">>)

C14_Witness ==
    /\ op = "get_new_assetids"
    /\ pc = "done"
    /\ tradeid = Some(SampleTradeId)
    /\ history = Some(sample_trade_history_response)
    /\ ret.tag = "Ok"
    /\ new_assetids = Some(<<"19793871926">>)

\* C15: when the Accept response is a success whose needs_mobile_confirmation
\* is missing or false, accept_offer returns Ok(()) and neither fetches nor
\* processes confirmations; the reconciliation runs only when it is true.
C15_NoReconciliationUnlessNeeded ==
    (op = "accept_offer" /\ request_result.tag = "Ok"
        /\ ~AcceptNeedsConfirmation) =>
        /\ pc = "done"
        /\ ret = Ok(0)
        /\ ~HasEvent("fetch_confirmations")
        /\ ~HasEvent("process_confirmations")

\* C16: their_steamid of the Accept payload is the 64-bit id of the partner
\* account of an offer that get_tradeoffer_by_id matched.
C16_TheirSteamIdIsThePartner ==
    (op = "accept_offer" /\ IsSome(sent)) =>
        /\ IsSome(lookup)
        /\ \E partner \in Unwrap(lookup) :
              Unwrap(sent).their_steamid = to_steam64(partner)

\* C17: the classifier is an ordered chain.  A text of the success shape is
\* a success whatever else it carries; only a text that is not is read as an
\* error envelope; in the envelope a present error_message is classified by
\* the string table even when an eresult is present too, and the eresult is
\* mapped only when the error_message is absent.
C17_ClassifierOrder ==
    IsSome(response_text) =>
        LET text == Unwrap(response_text)
        IN  /\ text.asT => request_result.tag = "Ok"
            /\ (~text.asT /\ text.asErr /\ IsSome(text.error_message)) =>
                  request_result =
                      Err(Unwrap(error_from_strmessage(Unwrap(text.error_message))))
            /\ (~text.asT /\ text.asErr /\ IsNone(text.error_message)
                    /\ IsSome(text.eresult)) =>
                  request_result =
                      Err(tradeoffer_error_from_eresult(Unwrap(text.eresult)))

C17_Witness ==
    /\ pc = "done"
    /\ IsSome(response_text)
    /\ Unwrap(response_text).error_message = Some(UnknownMessage)
    /\ Unwrap(response_text).eresult = Some(KnownEResult)
    /\ ret = Err(Error("GeneralFailure", UnknownMessage, 0))

\* C18: a response that is not a success and whose error_message is not in
\* the string table, or whose eresult is not in the numeric table, or whose
\* envelope carries neither, or that cannot be parsed while no guard issue
\* is detected, is returned as GeneralFailure and as no other kind; the
\* failure carries the raw message, or the raw response text.
C18_UnknownIsGeneralFailure ==
    (IsSome(response_text) /\ ~Unwrap(response_text).asT) =>
        LET text == Unwrap(response_text)
            failure == request_result.tag = "Err"
                          /\ request_result.err.kind = "GeneralFailure"
                          /\ ret = request_result
        IN  /\ (text.asErr /\ text.error_message = Some(UnknownMessage)) =>
                  failure /\ request_result.err.text = UnknownMessage
            /\ (text.asErr /\ IsNone(text.error_message)
                    /\ text.eresult = Some(UnknownEResult)) => failure
            /\ (text.asErr /\ IsNone(text.error_message) /\ IsNone(text.eresult)) =>
                  failure /\ request_result.err.text = text.raw
            /\ (~text.asErr /\ guard_result.tag # "Err") =>
                  failure /\ request_result.err.text = text.raw

C18_Witness ==
    /\ op = "create_offer"
    /\ pc = "done"
    /\ IsSome(response_text)
    /\ Unwrap(response_text).raw = "not json"
    /\ guard_result = Ok(0)
    /\ ret = Err(Error("GeneralFailure", "not json", 0))

\* the guard checks the operation has made
GuardChecks == {i \in DOMAIN io : io[i].ev = "check_steam_guard_error"}

\* C19: the guard check is made at most once in an operation, only by a
\* Create, and only when the response is neither a success nor an error
\* envelope; an error it reports is what the operation returns, in place of
\* GeneralFailure; Accept, Cancel and Decline never make it.
C19_GuardCheckOnlyForUnrecognizedCreate ==
    /\ Cardinality(GuardChecks) <= 1
    /\ GuardChecks # {} <=> guard_result.tag # "Pending"
    /\ GuardChecks # {} <=>
          /\ op \in Creates
          /\ IsSome(response_text)
          /\ ~Unwrap(response_text).asT
          /\ ~Unwrap(response_text).asErr
    /\ guard_result.tag = "Err" =>
          /\ pc = "done"
          /\ request_result = guard_result
          /\ ret = guard_result

C19_Witness ==
    /\ op = "create_offer_and_confirm"
    /\ pc = "done"
    /\ Cardinality(GuardChecks) = 1
    /\ guard_result.tag = "Err"
    /\ ret = guard_result
    /\ io = <<Event("POST", 0), Event("check_steam_guard_error", 0)>>

\* the POSTs the operation has sent
PostsSent == {i \in DOMAIN io : io[i].ev = "POST"}

\* C20: one call of create_offer, accept_offer, deny_offer or cancel_offer
\* sends at most one POST, and once request has made an error of the answer
\* the operation has ended with that error: nothing is posted again.
C20_NoRetry ==
    op \in Requests =>
        /\ Cardinality(PostsSent) <= 1
        /\ request_result.tag = "Err" =>
              /\ pc = "done"
              /\ ret = request_result

C20_Witness ==
    /\ op = "cancel_offer"
    /\ pc = "done"
    /\ IsSome(response_text)
    /\ request_result.tag = "Err"
    /\ ret = request_result
    /\ io = <<Event("POST", Unwrap(tradeoffer_id))>>

\* the operations that call a read endpoint
Readers == {"accept_offer", "decline_received_offers", "get_new_assetids"}

\* a read-endpoint call has been sent and the manager was not dropped since
ReadCallSent ==
    \/ other = "offers"
    \/ HasEvent("GetTradeOffers")
    \/ HasEvent("GetTradeHistory")

\* this step is the start of a read-endpoint call
ReadCallStarts ==
    \/ other = "idle" /\ other' = "offers"
    \/ pc = "idle" /\ op' \in Readers /\ pc' \in {"offers", "history"}

\* C21: over any sequence of operations on one manager SteamAPI::new is
\* called at most once; a read-endpoint call that is sent has the client in
\* the cell; a client that is in the cell is never replaced or taken out;
\* and only the start of a read-endpoint call puts one in.
C21_ClientConstructedAtMostOnce ==
    /\ [](/\ constructed <= 1
          /\ IsSome(api_client) <=> constructed = 1
          /\ ReadCallSent => IsSome(api_client))
    /\ [][/\ IsSome(api_client) => api_client' = api_client
          /\ api_client' # api_client => ReadCallStarts]_vars

C21_Witness ==
    /\ op = "accept_offer"
    /\ pc = "post"
    /\ HasEvent("GetTradeOffers")
    /\ other = "offers"
    /\ constructed = 1
    /\ IsSome(api_client)

\* C22: when two operations that use a read endpoint are interleaved on one
\* task, the borrow_mut of lazy_web_api_client is never taken while a Ref of
\* the client is still held by a read call that is suspended.
C22_NoBorrowMutWhileBorrowed ==
    ~already_borrowed

\* C23: when the Create response has the success shape, create_offer returns
\* Ok(id) with the id its tradeofferid string writes, or an Err when the
\* tradeofferid is absent or is not a decimal; it never aborts.
C23_CreateOfferTypedResult ==
    (op = "create_offer" /\ pc = "done" /\ IsSome(response_text)
        /\ Unwrap(response_text).asT) =>
        IF IsSome(CreatedId) THEN ret = Ok(Unwrap(CreatedId))
        ELSE ret.tag = "Err"

\* C24: get_new_assetids returns a typed result for every history: when the
\* history holds no trade of the tradeid, the empty history included, it
\* returns an Err or an empty list and does not abort; and an error of the
\* history fetch is returned as it is.
C24_NewAssetIdsTypedResult ==
    (op = "get_new_assetids" /\ pc = "done" /\ ~already_borrowed
        /\ HasEvent("GetTradeHistory")) =>
        /\ ret.tag \in {"Ok", "Err"}
        /\ IsNone(history) => ret.tag = "Err" /\ ret.err \in TransportErrors
        /\ (IsSome(history) /\ Matching = {}) =>
              \/ ret.tag = "Err"
              \/ ret.tag = "Ok" /\ new_assetids = Some(<<>>)

====
